---- MODULE Spec2Model ----
(***************************************************************************)
(* Background chunk-processing pipeline of Document-Processor:             *)
(* server/background-processor.ts (BackgroundProcessor), the storage       *)
(* operations it consumes (DatabaseStorage) and the two HTTP handlers that *)
(* write the same tables (POST /api/process-document and                   *)
(* POST /api/documents/:id/retry), with the chunker and the PDF text       *)
(* extraction (server/pdf-processor.ts) of the former, and the health      *)
(* monitor (HealthMonitor.performHealthCheck).                             *)
(*                                                                         *)
(* Atomicity: JavaScript runs one callback at a time and yields only at an *)
(* await.  An action of this module is one stretch of a handler between    *)
(* awaits that matter to the other handlers; where several consecutive     *)
(* storage awaits are folded into one action the comment of the action     *)
(* says so.                                                                *)
(*                                                                         *)
(* Text is a sequence of string tokens; a nullable column holds NULL.      *)
(* Time: updatedAt is read by getStuckChunks alone, and only of rows in    *)
(* status processing.  The model keeps, for those rows, now - updatedAt in *)
(* minutes ("age"), saturating just above the stuck threshold, the only    *)
(* value it is ever compared with; the clock moves in steps of ClockStep   *)
(* minutes.  A row in another status has age 0.                            *)
(***************************************************************************)
EXTENDS Integers, Sequences, FiniteSets, TLC

VARIABLES
    docs,          \* table documents: id (1..Len) -> row
    chunks,        \* table document_chunks: id (1..Len) -> row
    isProcessing,  \* BackgroundProcessor.isProcessing
    ticks,         \* the invocations of processNextChunk past the guard: position and locals
    submit,        \* POST /api/process-document in progress
    retry,         \* POST /api/documents/:id/retry in progress
    rejected,      \* an invocation returned at the guard during the running tick
    processingInterval,  \* BackgroundProcessor.processingInterval: a timer, 0 for null
    intervals      \* the interval timers that are set

timer == <<processingInterval, intervals>>

vars == <<docs, chunks, isProcessing, ticks, submit, retry, rejected, processingInterval,
          intervals>>

-----------------------------------------------------------------------------
(* Bounds of the model *)

MaxDocs == 2        \* documents ever submitted
MaxChunks == 2      \* chunk records ever created by submissions, over all documents
OrderChunks == 3    \* chunks of the document SpecOrder follows
ClockStep == 3      \* minutes between two readings of the clock
FaultChunks == 2    \* chunks of the document SpecFaults follows
MaxTextLen == 6     \* characters of a text given to the chunker
maxChunkSize == 3   \* the chunker's maxChunkSize (15000 in the program), scaled to the texts

(* Program constants *)

stuckChunkThreshold == 5     \* 5 * 60 * 1000 ms, in minutes
RetryBound == 2              \* retryCount < 2
RetentionPercent == 95       \* retentionRate < 0.95
MaxChunkChars == 100000      \* chunk.content.length > 100000

MaxAge == stuckChunkThreshold + 1

NULL == <<"NULL">>

-----------------------------------------------------------------------------
(* Text helpers *)

Includes(msg, tok) == msg # NULL /\ \E i \in DOMAIN msg : msg[i] = tok

IsDigits(tok) == \E n \in 0..99 : ToString(n) = tok

parseInt(tok) == CHOOSE n \in 0..99 : ToString(n) = tok

\* (x * 100).toFixed(1) for x = num / den, as tokens
ToFixed1(num, den) ==
    LET tenths == (2000 * num + den) \div (2 * den)
    IN  <<ToString(tenths \div 10), ".", ToString(tenths % 10)>>

\* Array.prototype.join: null and undefined elements join as the empty string
RECURSIVE Join(_, _)
Join(texts, sep) ==
    IF texts = <<>> THEN <<>>
    ELSE LET h == IF Head(texts) = NULL THEN <<>> ELSE Head(texts)
         IN  IF Len(texts) = 1 THEN h ELSE h \o sep \o Join(Tail(texts), sep)

\* characters of a token: a token is one character, but for the words and the
\* runs of characters that stand for a longer stretch of a text
TokenLength(tok) ==
    CASE tok = "run of 100001 characters" -> 100001
      [] tok = "paragraph " -> 60
      [] tok = "word " -> 5
      [] tok = "encrypted" -> 9
      [] tok = "U2FsdGVkX1" -> 10
      [] OTHER -> 1

lengthInTokens(text) == Len(text)

\* String.prototype.length
RECURSIVE length(_)
length(text) == IF text = <<>> THEN 0 ELSE TokenLength(Head(text)) + length(Tail(text))

Perms(S) ==
    {s \in [1..Cardinality(S) -> S] : \A i, j \in 1..Cardinality(S) : i # j => s[i] # s[j]}

-----------------------------------------------------------------------------
(* Storage (DatabaseStorage) *)

NewDocument ==
    [status |-> "pending", totalChunks |-> 1, processedChunks |-> 0,
     processedMarkdown |-> NULL, errorMessage |-> NULL,
     completedOrder |-> <<>>]    \* history: chunkIndex of the chunks, as they completed

\* the text of chunk i of a submitted document
ChunkText(i) == <<"w", ToString(i)>>

NewChunk(id, d, i) ==
    [id |-> id, documentId |-> d, chunkIndex |-> i, content |-> ChunkText(i),
     processedContent |-> NULL, status |-> "pending", errorMessage |-> NULL,
     age |-> 0, lowResets |-> 0]

updateDocument(ds, id, updates) == [ds EXCEPT ![id] = updates @@ ds[id]]

updateDocumentChunk(cs, id, updates) ==
    [cs EXCEPT ![id] = ([age |-> 0] @@ updates) @@ cs[id]]

\* rows in an order the database chooses (no ORDER BY)
getDocumentsByStatus(ds, status) ==
    Perms({d \in DOMAIN ds : ds[d].status = status})

getDocumentChunks(cs, d) ==
    {[k \in DOMAIN p |-> cs[p[k]]] : p \in Perms({i \in DOMAIN cs : cs[i].documentId = d})}

getStuckChunksAll(cs, thresholdMin) ==
    {i \in DOMAIN cs : cs[i].status = "processing"}

\* status = 'processing' AND updatedAt < now - threshold
getStuckChunks(cs, thresholdMin) ==
    {i \in DOMAIN cs : cs[i].status = "processing" /\ cs[i].age > thresholdMin}

-----------------------------------------------------------------------------
(* BackgroundProcessor helpers *)

BusyNever == FALSE

\* if (this.isProcessing) return;
Busy == isProcessing

recoverStuckChunks(cs) ==
    LET stuckChunks == getStuckChunks(cs, stuckChunkThreshold)
    IN  [i \in DOMAIN cs |->
            IF i \in stuckChunks
            THEN ([age |-> 0, status |-> "pending", errorMessage |-> NULL] @@ cs[i])
            ELSE cs[i]]

\* chunks.find(chunk => chunk.status === 'pending'): position, 0 when none
Find(cs, status) ==
    IF \E k \in DOMAIN cs : cs[k].status = status
    THEN CHOOSE k \in DOMAIN cs :
            /\ cs[k].status = status
            /\ \A j \in 1..(k - 1) : cs[j].status # status
    ELSE 0

FilterAll(cs, status) == DOMAIN cs

\* chunks.filter(chunk => chunk.status === status): positions
Filter(cs, status) == {k \in DOMAIN cs : cs[k].status = status}

RECURSIVE Insert(_, _)
Insert(sorted, c) ==
    IF sorted = <<>> THEN <<c>>
    ELSE IF c.chunkIndex - Head(sorted).chunkIndex < 0
         THEN <<c>> \o sorted
         ELSE <<Head(sorted)>> \o Insert(Tail(sorted), c)

RECURSIVE SortRec(_)
SortRec(cs) ==
    IF cs = <<>> THEN <<>>
    ELSE Insert(SortRec(SubSeq(cs, 1, Len(cs) - 1)), cs[Len(cs)])

Unsorted(cs) == cs

\* chunks.sort((a, b) => a.chunkIndex - b.chunkIndex)
SortByChunkIndex(cs) == SortRec(cs)

finalizeDocument(ds, d, cs) ==
    LET sortedChunks == SortByChunkIndex(cs)
        processedMarkdown ==
            Join([k \in DOMAIN sortedChunks |-> sortedChunks[k].processedContent],
                 <<"\n", "\n">>)
    IN  updateDocument(ds, d, [processedMarkdown |-> processedMarkdown,
                               status |-> "completed"])

\* chunk.errorMessage?.includes('LOW_RETENTION_RETRY')
isRetry(msg) == Includes(msg, "LOW_RETENTION_RETRY")

\* parseInt(chunk.errorMessage.match(/RETRY_(\d+)/)?.[1] || '0')
retryCount(msg) ==
    IF isRetry(msg)
    THEN LET hits == {i \in 1..(Len(msg) - 2) :
                         /\ msg[i] \in {"RETRY", "LOW_RETENTION_RETRY"}
                         /\ msg[i + 1] = "_"
                         /\ IsDigits(msg[i + 2])}
         IN  IF hits = {} THEN 0
             ELSE parseInt(msg[(CHOOSE i \in hits : \A j \in hits : i <= j) + 2])
    ELSE 0

modelDefault(errorMessage) == "gpt-4o-mini"

\* (isRetry || retryCount > 0) ? "gpt-4o" : "gpt-4o-mini"
modelToUse(errorMessage) ==
    IF isRetry(errorMessage) \/ retryCount(errorMessage) > 0 THEN "gpt-4o" ELSE "gpt-4o-mini"

\* retentionRate < 0.95
LowRetention(processed, original) ==
    Len(processed) * 100 < RetentionPercent * Len(original)

LowRetentionMessage(n, processed, original) ==
    <<"LOW_RETENTION_RETRY", "_", ToString(n), ": ">>
        \o ToFixed1(Len(processed), Len(original)) \o <<"% retention">>

\* what the model may answer for a chunk: all of it, part of it, nothing
LLMOutputs(content) == {content, SubSeq(content, 1, Len(content) - 1), <<>>}

\* response.choices[0].message.content: a text as above, or null
DirectOutputs(content) == LLMOutputs(content) \cup {NULL}

keepContent(content, fallback) == content

\* response.choices[0].message.content || chunk.content
orContent(content, fallback) ==
    IF content = NULL \/ content = <<>> THEN fallback ELSE content

\* errors of the assistant fallback
ErrTimeout == <<"OpenAI assistant ", "timeout", " after 2 minutes">>
ErrRunFailed == <<"Assistant run failed with status: ", "failed">>
AssistantErrors == {ErrTimeout, ErrRunFailed}

isRetryableNever(msg) == FALSE

isRetryable(msg) ==
    \E tok \in {"rate limit", "timeout", "network", "503", "502"} : Includes(msg, tok)

LoopContinue(rest) == rest

\* break; // Process one chunk at a time
LoopAfterChunk(rest) == <<>>

RemoveAt(s, k) == SubSeq(s, 1, k - 1) \o SubSeq(s, k + 1, Len(s))

\* processChunk has returned to the for loop of processNextChunk
Returned(k) ==
    [ticks EXCEPT ![k] = [@ EXCEPT !.pc = "scan", !.docs = LoopAfterChunk(@), !.chunk = <<>>,
                                   !.modelToUse = "none"]]

\* persist processedContent, mark completed, processedChunks + 1
Complete(k, processedContent) ==
    LET chunk == ticks[k].chunk[1]
    IN  /\ chunks' = [updateDocumentChunk(chunks, chunk.id,
                          [processedContent |-> processedContent, status |-> "completed"])
                      EXCEPT ![chunk.id].lowResets = 0]
        /\ docs' = [updateDocument(docs, chunk.documentId,
                       [processedChunks |-> docs[chunk.documentId].processedChunks + 1])
                    EXCEPT ![chunk.documentId].completedOrder = Append(@, chunk.chunkIndex)]

-----------------------------------------------------------------------------
(* BackgroundProcessor.processNextChunk *)

\* Entry, by a timer of setInterval: the guard, then
\* cleanupExpiredDocuments (nothing expires within the horizon of the model:
\* expiry is 24 hours), recoverStuckChunks and getDocumentsByStatus('processing').
TickEnter ==
    /\ intervals # {}
    /\ IF Busy
       THEN /\ rejected' = TRUE
            /\ UNCHANGED <<docs, chunks, isProcessing, ticks, submit, retry, timer>>
       ELSE /\ isProcessing' = TRUE
            /\ chunks' = recoverStuckChunks(chunks)
            /\ \E pendingDocuments \in getDocumentsByStatus(docs, "processing") :
                  ticks' = Append(ticks,
                              [pc |-> "scan", docs |-> pendingDocuments, chunk |-> <<>>,
                               modelToUse |-> "none", moved |-> 0,
                               stuck |-> getStuckChunks(chunks, stuckChunkThreshold)])
            /\ UNCHANGED <<docs, submit, retry, rejected, timer>>

\* One iteration of the for loop (getDocumentChunks, then either the start of
\* processChunk or the document's completion check), or the loop's end and
\* the finally block.
Scan(k) ==
    /\ ticks[k].pc = "scan"
    /\ IF ticks[k].docs = <<>>
       THEN /\ isProcessing' = FALSE
            /\ ticks' = RemoveAt(ticks, k)
            /\ rejected' = FALSE
            /\ UNCHANGED <<docs, chunks, submit, retry, timer>>
       ELSE LET d == Head(ticks[k].docs)
                rest == Tail(ticks[k].docs)
            IN  \E cs \in getDocumentChunks(chunks, d) :
                  LET p == Find(cs, "pending") IN
                  IF p # 0
                  THEN \* processChunk: mark processing, validate the size
                       IF length(cs[p].content) > MaxChunkChars
                       THEN /\ chunks' = updateDocumentChunk(chunks, cs[p].id,
                                   [status |-> "failed",
                                    processedContent |-> <<"Error: Chunk too large">>])
                            /\ ticks' = [ticks EXCEPT ![k] =
                                   [@ EXCEPT !.docs = LoopAfterChunk(rest),
                                             !.moved = @ + 1]]
                            /\ UNCHANGED <<docs, isProcessing, submit, retry, rejected, timer>>
                       ELSE /\ chunks' = updateDocumentChunk(chunks, cs[p].id,
                                   [status |-> "processing"])
                            /\ ticks' = [ticks EXCEPT ![k] =
                                   [@ EXCEPT !.pc = "pathA", !.docs = rest,
                                             !.chunk = <<cs[p]>>,
                                             !.modelToUse = modelToUse(cs[p].errorMessage),
                                             !.moved = @ + 1]]
                            /\ UNCHANGED <<docs, isProcessing, submit, retry, rejected, timer>>
                  ELSE /\ docs' =
                          IF Cardinality(Filter(cs, "completed")) = Len(cs)
                          THEN finalizeDocument(docs, d, cs)
                          ELSE IF Cardinality(Filter(cs, "failed")) > 0
                          THEN updateDocument(docs, d,
                                   [status |-> "failed",
                                    errorMessage |->
                                        <<ToString(Cardinality(Filter(cs, "failed"))),
                                          " chunks failed to process">>])
                          ELSE docs
                       /\ ticks' = [ticks EXCEPT ![k].docs = rest]
                       /\ UNCHANGED <<chunks, isProcessing, submit, retry, rejected, timer>>

\* Path A: the direct completion answers, or throws (then path B).
DirectCompletion(k) ==
    /\ ticks[k].pc = "pathA"
    /\ LET chunk == ticks[k].chunk[1] IN
       \/ \E content \in DirectOutputs(chunk.content) :
            LET processedContent == orContent(content, chunk.content)
                count == retryCount(chunk.errorMessage)
            IN  IF LowRetention(processedContent, chunk.content) /\ count < RetryBound
                THEN /\ chunks' = [updateDocumentChunk(chunks, chunk.id,
                                      [status |-> "pending",
                                       errorMessage |->
                                          LowRetentionMessage(count + 1, processedContent,
                                                              chunk.content)])
                                   EXCEPT ![chunk.id].lowResets =
                                      IF @ < RetryBound + 1 THEN @ + 1 ELSE @]
                     /\ ticks' = Returned(k)
                     /\ UNCHANGED <<docs, isProcessing, submit, retry, rejected, timer>>
                ELSE /\ Complete(k, processedContent)
                     /\ ticks' = Returned(k)
                     /\ UNCHANGED <<isProcessing, submit, retry, rejected, timer>>
       \/ /\ ticks' = [ticks EXCEPT ![k].pc = "pathB"]
          /\ UNCHANGED <<docs, chunks, isProcessing, submit, retry, rejected, timer>>

\* Path B: the assistant run ends completed with a text, or an error reaches
\* the outer catch of processChunk.
AssistantFallback(k) ==
    /\ ticks[k].pc = "pathB"
    /\ LET chunk == ticks[k].chunk[1] IN
       \/ \E content \in LLMOutputs(chunk.content) :
            /\ Complete(k, content)
            /\ ticks' = Returned(k)
            /\ UNCHANGED <<isProcessing, submit, retry, rejected, timer>>
       \/ \E message \in AssistantErrors :
            /\ chunks' =
                 IF isRetryable(message)
                 THEN updateDocumentChunk(chunks, chunk.id,
                          [status |-> "pending",
                           errorMessage |-> <<"Retrying: ">> \o message])
                 ELSE [updateDocumentChunk(chunks, chunk.id,
                          [status |-> "failed", errorMessage |-> message])
                       EXCEPT ![chunk.id].lowResets = 0]
            /\ ticks' = Returned(k)
            /\ UNCHANGED <<docs, isProcessing, submit, retry, rejected, timer>>

-----------------------------------------------------------------------------
(* BackgroundProcessor.processChunk: an API call or storage throws *)

\* an API error of the assistant calls: HTTP status 500
ErrServer == <<"500", " status code (no body)">>

\* errors of getDocument / updateDocument
ErrStorageTimeout == <<"Connection terminated due to connection ", "timeout">>
ErrStorage == <<"Connection terminated unexpectedly">>
StorageErrors == {ErrStorageTimeout, ErrStorage}

\* catch (error): reset to pending when retryable, else mark failed
Caught(cs, id, message) ==
    IF isRetryable(message)
    THEN updateDocumentChunk(cs, id,
             [status |-> "pending", errorMessage |-> <<"Retrying: ">> \o message])
    ELSE updateDocumentChunk(cs, id, [status |-> "failed", errorMessage |-> message])

\* Path B: threads.create, messages.create or runs.create rejects
AssistantThrows(k) ==
    /\ ticks[k].pc = "pathB"
    /\ LET chunk == ticks[k].chunk[1] IN
       chunks' = [Caught(chunks, chunk.id, ErrServer) EXCEPT ![chunk.id].lowResets = 0]
    /\ ticks' = Returned(k)
    /\ UNCHANGED <<docs, isProcessing, submit, retry, rejected, timer>>

\* The output was accepted and updateDocumentChunk(processedContent, completed)
\* succeeded; the counter update that follows (getDocument, updateDocument)
\* throws: control is in the catch of processChunk.
StoreThenThrow(k) ==
    /\ ticks[k].pc \in {"pathA", "pathB"}
    /\ LET chunk == ticks[k].chunk[1] IN
       \E content \in IF ticks[k].pc = "pathA" THEN DirectOutputs(chunk.content)
                                               ELSE LLMOutputs(chunk.content) :
          LET processedContent ==
                 IF ticks[k].pc = "pathA" THEN orContent(content, chunk.content) ELSE content
          IN  /\ ticks[k].pc = "pathA" =>
                    ~(/\ LowRetention(processedContent, chunk.content)
                      /\ retryCount(chunk.errorMessage) < RetryBound)
              /\ chunks' = [updateDocumentChunk(chunks, chunk.id,
                                [processedContent |-> processedContent,
                                 status |-> "completed"])
                            EXCEPT ![chunk.id].lowResets = 0]
    /\ ticks' = [ticks EXCEPT ![k].pc = "catch"]
    /\ UNCHANGED <<docs, isProcessing, submit, retry, rejected, timer>>

OuterCatch(k) ==
    /\ ticks[k].pc = "catch"
    /\ \E message \in StorageErrors :
          chunks' = Caught(chunks, ticks[k].chunk[1].id, message)
    /\ ticks' = Returned(k)
    /\ UNCHANGED <<docs, isProcessing, submit, retry, rejected, timer>>

-----------------------------------------------------------------------------
(* POST /api/process-document *)

IdleSubmit == [pc |-> "idle", doc |-> 0, n |-> 0, i |-> 0]

\* createDocument (status pending), then the in-memory chunking
SubmitCreate ==
    /\ submit.pc = "idle"
    /\ Len(docs) < MaxDocs
    /\ Len(chunks) < MaxChunks
    /\ \E n \in 1..(MaxChunks - Len(chunks)) :
         /\ docs' = Append(docs, NewDocument)
         /\ submit' = [pc |-> "update", doc |-> Len(docs) + 1, n |-> n, i |-> 0]
    /\ UNCHANGED <<chunks, isProcessing, ticks, retry, rejected, timer>>

\* updateDocument(totalChunks, status processing)
SubmitUpdate ==
    /\ submit.pc = "update"
    /\ docs' = updateDocument(docs, submit.doc,
                   [totalChunks |-> submit.n, status |-> "processing"])
    /\ submit' = [submit EXCEPT !.pc = "chunks"]
    /\ UNCHANGED <<chunks, isProcessing, ticks, retry, rejected, timer>>

\* createDocumentChunk for chunk i; after the last one the handler responds
SubmitChunk ==
    /\ submit.pc = "chunks"
    /\ chunks' = Append(chunks, NewChunk(Len(chunks) + 1, submit.doc, submit.i))
    /\ submit' = IF submit.i + 1 = submit.n THEN IdleSubmit
                 ELSE [submit EXCEPT !.i = @ + 1]
    /\ UNCHANGED <<docs, isProcessing, ticks, retry, rejected, timer>>

-----------------------------------------------------------------------------
(* POST /api/documents/:id/retry *)

IdleRetry == [pc |-> "idle", doc |-> 0]

\* getDocument, the status check, updateDocument
RetryStart(d) ==
    /\ retry.pc = "idle"
    /\ docs[d].status = "failed"
    /\ docs' = updateDocument(docs, d,
                   [status |-> "processing", errorMessage |-> NULL, processedChunks |-> 0])
    /\ retry' = [pc |-> "chunks", doc |-> d]
    /\ UNCHANGED <<chunks, isProcessing, ticks, submit, rejected, timer>>

RetryAllChunks ==
    /\ retry.pc = "chunks"
    /\ chunks' = [i \in DOMAIN chunks |->
                    IF chunks[i].documentId = retry.doc
                    THEN ([age |-> 0, status |-> "pending", errorMessage |-> NULL,
                           processedContent |-> NULL] @@ chunks[i])
                    ELSE chunks[i]]
    /\ retry' = IdleRetry
    /\ UNCHANGED <<docs, isProcessing, ticks, submit, rejected, timer>>

\* getDocumentChunks, then every failed chunk back to pending
RetryChunks ==
    /\ retry.pc = "chunks"
    /\ chunks' = [i \in DOMAIN chunks |->
                    IF chunks[i].documentId = retry.doc /\ chunks[i].status = "failed"
                    THEN ([age |-> 0, status |-> "pending", errorMessage |-> NULL,
                           processedContent |-> NULL] @@ chunks[i])
                    ELSE chunks[i]]
    /\ retry' = IdleRetry
    /\ UNCHANGED <<docs, isProcessing, ticks, submit, rejected, timer>>

-----------------------------------------------------------------------------
(* Environment *)

\* the clock moves on
Advance ==
    /\ \E i \in DOMAIN chunks : chunks[i].status = "processing" /\ chunks[i].age < MaxAge
    /\ chunks' = [i \in DOMAIN chunks |->
                    IF chunks[i].status = "processing"
                    THEN [chunks[i] EXCEPT !.age =
                             IF @ + ClockStep < MaxAge THEN @ + ClockStep ELSE MaxAge]
                    ELSE chunks[i]]
    /\ UNCHANGED <<docs, isProcessing, ticks, submit, retry, rejected, timer>>

\* The process dies and is started again: the tables persist, a new
\* BackgroundProcessor is constructed and registerRoutes starts it.
Restart ==
    /\ \/ isProcessing
       \/ submit.pc # "idle"
       \/ retry.pc # "idle"
    /\ isProcessing' = FALSE
    /\ ticks' = <<>>
    /\ submit' = IdleSubmit
    /\ retry' = IdleRetry
    /\ rejected' = FALSE
    /\ processingInterval' = 1
    /\ intervals' = {1}
    /\ UNCHANGED <<docs, chunks>>

-----------------------------------------------------------------------------

Init ==
    /\ docs = <<>>
    /\ chunks = <<>>
    /\ isProcessing = FALSE
    /\ ticks = <<>>
    /\ submit = IdleSubmit
    /\ retry = IdleRetry
    /\ rejected = FALSE
    /\ processingInterval = 1
    /\ intervals = {1}

Running ==
    \/ TickEnter
    \/ \E k \in DOMAIN ticks : Scan(k)
    \/ \E k \in DOMAIN ticks : DirectCompletion(k)
    \/ \E k \in DOMAIN ticks : AssistantFallback(k)
    \/ SubmitCreate
    \/ SubmitUpdate
    \/ SubmitChunk
    \/ \E d \in DOMAIN docs : RetryStart(d)
    \/ RetryChunks
    \/ Advance

Next == Running \/ Restart

Spec == Init /\ [][Next]_vars

\* The process keeps running: the interval timer keeps firing, time passes,
\* storage answers and the assistant fallback ends within its two minutes.
\* Nothing makes the direct completion return.
SpecRunning ==
    /\ Init
    /\ [][Running]_vars
    /\ WF_vars(TickEnter)
    /\ WF_vars(Advance)
    /\ WF_vars(\E k \in DOMAIN ticks : Scan(k))
    /\ WF_vars(\E k \in DOMAIN ticks : AssistantFallback(k))

\* One submitted document of OrderChunks chunks, followed through the
\* scheduler and the retry route.
InitOrder ==
    /\ docs = <<[NewDocument EXCEPT !.status = "processing", !.totalChunks = OrderChunks]>>
    /\ chunks = [id \in 1..OrderChunks |-> NewChunk(id, 1, id - 1)]
    /\ isProcessing = FALSE
    /\ ticks = <<>>
    /\ submit = IdleSubmit
    /\ retry = IdleRetry
    /\ rejected = FALSE
    /\ processingInterval = 1
    /\ intervals = {1}

NextOrder ==
    \/ TickEnter
    \/ \E k \in DOMAIN ticks : Scan(k)
    \/ \E k \in DOMAIN ticks : DirectCompletion(k)
    \/ \E k \in DOMAIN ticks : AssistantFallback(k)
    \/ \E d \in DOMAIN docs : RetryStart(d)
    \/ RetryChunks

SpecOrder == InitOrder /\ [][NextOrder]_vars

\* Every step of the running process is taken if it stays possible: the
\* timer fires, time passes, storage answers and every LLM call returns.
SpecFair ==
    /\ Init
    /\ [][Running]_vars
    /\ WF_vars(TickEnter)
    /\ WF_vars(Advance)
    /\ WF_vars(\E k \in DOMAIN ticks : Scan(k))
    /\ WF_vars(\E k \in DOMAIN ticks : DirectCompletion(k))
    /\ WF_vars(\E k \in DOMAIN ticks : AssistantFallback(k))

\* One stored document of FaultChunks chunks; API calls and storage may throw.
InitFaults ==
    /\ docs = <<[NewDocument EXCEPT !.status = "processing", !.totalChunks = FaultChunks]>>
    /\ chunks = [id \in 1..FaultChunks |-> NewChunk(id, 1, id - 1)]
    /\ isProcessing = FALSE
    /\ ticks = <<>>
    /\ submit = IdleSubmit
    /\ retry = IdleRetry
    /\ rejected = FALSE
    /\ processingInterval = 1
    /\ intervals = {1}

NextFaults ==
    \/ TickEnter
    \/ \E k \in DOMAIN ticks : Scan(k)
    \/ \E k \in DOMAIN ticks : DirectCompletion(k)
    \/ \E k \in DOMAIN ticks : AssistantFallback(k)
    \/ \E k \in DOMAIN ticks : AssistantThrows(k)
    \/ \E k \in DOMAIN ticks : StoreThenThrow(k)
    \/ \E k \in DOMAIN ticks : OuterCatch(k)
    \/ \E d \in DOMAIN docs : RetryStart(d)
    \/ RetryChunks
    \/ Advance
    \/ Restart

SpecFaults == InitFaults /\ [][NextFaults]_vars

\* A stored document of two chunks whose first chunk is longer than the
\* ceiling of processChunk, followed through the scheduler and the retry route.
InitOversized ==
    /\ docs = <<[NewDocument EXCEPT !.status = "processing", !.totalChunks = 2]>>
    /\ chunks = <<[NewChunk(1, 1, 0) EXCEPT !.content = <<"run of 100001 characters">>],
                  NewChunk(2, 1, 1)>>
    /\ isProcessing = FALSE
    /\ ticks = <<>>
    /\ submit = IdleSubmit
    /\ retry = IdleRetry
    /\ rejected = FALSE
    /\ processingInterval = 1
    /\ intervals = {1}

SpecOversized == InitOversized /\ [][NextOrder]_vars

-----------------------------------------------------------------------------
(* BackgroundProcessor.processChunk, path B step by step: the run of the     *)
(* assistant and the loop that polls its status.  Time is in seconds.        *)

MaxLatency == 1     \* seconds runs.retrieve takes at most

maxWaitTime == 120  \* 2 * 60 * 1000 ms
PollInterval == 2   \* setTimeout(resolve, 2000)

RunStatuses == {"queued", "in_progress", "completed", "failed", "expired"}

ErrRunStatus(status) == <<"Assistant run failed with status: ", status>>
ErrNoResponse == <<"No valid response from assistant">>

TimedOutNever(elapsed) == FALSE

\* Date.now() - startTime > maxWaitTime
TimedOut(elapsed) == elapsed > maxWaitTime

\* runStatus.status === "queued" || runStatus.status === "in_progress"
Waiting(status) == status \in {"queued", "in_progress"}

\* threads.create, messages.create, runs.create and the first runs.retrieve
AssistantRun(k) ==
    /\ ticks[k].pc = "pathB"
    /\ \E status \in RunStatuses :
         ticks' = [ticks EXCEPT ![k] =
                     [pc |-> "poll", runStatus |-> status, elapsed |-> 0, polls |-> 0] @@ @]
    /\ UNCHANGED <<docs, chunks, isProcessing, submit, retry, rejected, timer>>

\* the loop's test of the clock: the throw, caught by the catch of processChunk
PollTimeout(k) ==
    /\ ticks[k].pc = "poll"
    /\ Waiting(ticks[k].runStatus)
    /\ TimedOut(ticks[k].elapsed)
    /\ chunks' = Caught(chunks, ticks[k].chunk[1].id, ErrTimeout)
    /\ ticks' = Returned(k)
    /\ UNCHANGED <<docs, isProcessing, submit, retry, rejected, timer>>

\* one iteration: the sleep, then runs.retrieve
PollWait(k) ==
    /\ ticks[k].pc = "poll"
    /\ Waiting(ticks[k].runStatus)
    /\ ~TimedOut(ticks[k].elapsed)
    /\ \E status \in RunStatuses, latency \in 0..MaxLatency :
         ticks' = [ticks EXCEPT ![k] =
                     [@ EXCEPT !.runStatus = status,
                               !.elapsed = @ + PollInterval + latency,
                               !.polls = @ + 1]]
    /\ UNCHANGED <<docs, chunks, isProcessing, submit, retry, rejected, timer>>

\* after the loop: the message of a completed run is the output, any other
\* end of the run is an error
RunEnded(k) ==
    /\ ticks[k].pc = "poll"
    /\ ~Waiting(ticks[k].runStatus)
    /\ LET chunk == ticks[k].chunk[1] IN
       IF ticks[k].runStatus = "completed"
       THEN \/ \E content \in LLMOutputs(chunk.content) :
                 /\ Complete(k, content)
                 /\ ticks' = Returned(k)
                 /\ UNCHANGED <<isProcessing, submit, retry, rejected, timer>>
            \/ /\ chunks' = [Caught(chunks, chunk.id, ErrNoResponse)
                              EXCEPT ![chunk.id].lowResets = 0]
               /\ ticks' = Returned(k)
               /\ UNCHANGED <<docs, isProcessing, submit, retry, rejected, timer>>
       ELSE /\ chunks' = [Caught(chunks, chunk.id, ErrRunStatus(ticks[k].runStatus))
                          EXCEPT ![chunk.id].lowResets = 0]
            /\ ticks' = Returned(k)
            /\ UNCHANGED <<docs, isProcessing, submit, retry, rejected, timer>>

\* One stored document of one chunk.
InitPoll ==
    /\ docs = <<[NewDocument EXCEPT !.status = "processing"]>>
    /\ chunks = <<NewChunk(1, 1, 0)>>
    /\ isProcessing = FALSE
    /\ ticks = <<>>
    /\ submit = IdleSubmit
    /\ retry = IdleRetry
    /\ rejected = FALSE
    /\ processingInterval = 1
    /\ intervals = {1}

NextPoll ==
    \/ TickEnter
    \/ \E k \in DOMAIN ticks : Scan(k)
    \/ \E k \in DOMAIN ticks : DirectCompletion(k)
    \/ \E k \in DOMAIN ticks : AssistantRun(k)
    \/ \E k \in DOMAIN ticks : PollTimeout(k)
    \/ \E k \in DOMAIN ticks : PollWait(k)
    \/ \E k \in DOMAIN ticks : RunEnded(k)

\* The sleep ends and every call of the assistant API returns.
SpecPoll ==
    /\ InitPoll
    /\ [][NextPoll]_vars
    /\ WF_vars(\E k \in DOMAIN ticks : PollTimeout(k))
    /\ WF_vars(\E k \in DOMAIN ticks : PollWait(k))
    /\ WF_vars(\E k \in DOMAIN ticks : RunEnded(k))

-----------------------------------------------------------------------------
(* HealthMonitor.performHealthCheck *)

MsgProcessingTimedOut == <<"Processing timed out - document may be too complex or large">>

\* A document in status processing whose createdAt is more than 4 hours ago
\* is marked failed.  createdAt is not kept in the model: for how long a
\* document has existed when the check runs is the environment's choice.
HealthCheck(d) ==
    /\ docs[d].status = "processing"
    /\ docs' = updateDocument(docs, d,
                   [status |-> "failed", errorMessage |-> MsgProcessingTimedOut])
    /\ UNCHANGED <<chunks, isProcessing, ticks, submit, retry, rejected, timer>>

NextHealth ==
    \/ TickEnter
    \/ \E k \in DOMAIN ticks : Scan(k)
    \/ \E k \in DOMAIN ticks : DirectCompletion(k)
    \/ \E k \in DOMAIN ticks : AssistantFallback(k)
    \/ \E d \in DOMAIN docs : RetryStart(d)
    \/ RetryChunks
    \/ \E d \in DOMAIN docs : HealthCheck(d)

\* One stored document of FaultChunks chunks, with the health monitor running.
SpecHealth == InitFaults /\ [][NextHealth]_vars

-----------------------------------------------------------------------------
(* BackgroundProcessor.processChunk when the API keeps answering with        *)
(* retryable errors *)

ErrRateLimit == <<"429 ", "rate limit", " reached for requests">>
ErrBadGateway == <<"502", " status code (no body)">>
RetryableErrors == {ErrTimeout, ErrRateLimit, ErrBadGateway}

\* Path A throws
DirectThrows(k) ==
    /\ ticks[k].pc = "pathA"
    /\ ticks' = [ticks EXCEPT ![k].pc = "pathB"]
    /\ UNCHANGED <<docs, chunks, isProcessing, submit, retry, rejected, timer>>

\* Path B throws one of the retryable errors: the catch of processChunk
AssistantRetryable(k) ==
    /\ ticks[k].pc = "pathB"
    /\ \E message \in RetryableErrors :
         chunks' = Caught(chunks, ticks[k].chunk[1].id, message)
    /\ ticks' = Returned(k)
    /\ UNCHANGED <<docs, isProcessing, submit, retry, rejected, timer>>

NextRetryable ==
    \/ TickEnter
    \/ \E k \in DOMAIN ticks : Scan(k)
    \/ \E k \in DOMAIN ticks : DirectThrows(k)
    \/ \E k \in DOMAIN ticks : AssistantRetryable(k)
    \/ Advance
    \/ Restart

\* One stored document of FaultChunks chunks, the scheduler, the clock and
\* restarts, with every attempt on a chunk ending in a retryable error.
SpecRetryableErrors == InitFaults /\ [][NextRetryable]_vars

-----------------------------------------------------------------------------
(* BackgroundProcessor.start and stop *)

StartedNever == FALSE

\* if (this.processingInterval)
Started == processingInterval # 0

\* setInterval returns a timer that is not one of those set
setInterval == CHOOSE t \in 1..(Cardinality(intervals) + 1) : t \notin intervals

start ==
    IF Started
    THEN UNCHANGED vars
    ELSE /\ processingInterval' = setInterval
         /\ intervals' = intervals \cup {setInterval}
         /\ UNCHANGED <<docs, chunks, isProcessing, ticks, submit, retry, rejected>>

stop ==
    IF Started
    THEN /\ intervals' = intervals \ {processingInterval}
         /\ processingInterval' = 0
         /\ UNCHANGED <<docs, chunks, isProcessing, ticks, submit, retry, rejected>>
    ELSE UNCHANGED vars

\* A constructed BackgroundProcessor, not started yet, and one stored
\* document of one chunk.
InitTimer ==
    /\ docs = <<[NewDocument EXCEPT !.status = "processing"]>>
    /\ chunks = <<NewChunk(1, 1, 0)>>
    /\ isProcessing = FALSE
    /\ ticks = <<>>
    /\ submit = IdleSubmit
    /\ retry = IdleRetry
    /\ rejected = FALSE
    /\ processingInterval = 0
    /\ intervals = {}

NextTimer ==
    \/ start
    \/ stop
    \/ TickEnter
    \/ \E k \in DOMAIN ticks : Scan(k)
    \/ \E k \in DOMAIN ticks : DirectCompletion(k)
    \/ \E k \in DOMAIN ticks : AssistantFallback(k)

SpecTimer == InitTimer /\ [][NextTimer]_vars

-----------------------------------------------------------------------------
(* POST /api/process-document: the chunker.  A text is a sequence of         *)
(* one-character strings.                                                    *)

Chars == {"a", "b", ".", " ", "\n"}

IsSpace(c) == c \in {" ", "\n"}

RECURSIVE trimStart(_)
trimStart(t) == IF t # <<>> /\ IsSpace(Head(t)) THEN trimStart(Tail(t)) ELSE t

RECURSIVE trimEnd(_)
trimEnd(t) ==
    IF t # <<>> /\ IsSpace(t[Len(t)]) THEN trimEnd(SubSeq(t, 1, Len(t) - 1)) ELSE t

\* String.prototype.trim
trim(t) == trimEnd(trimStart(t))

\* String.prototype.split(sep) for a non-empty string sep
RECURSIVE split(_, _)
split(t, sep) ==
    LET hits == {i \in 1..(Len(t) - Len(sep) + 1) : SubSeq(t, i, i + Len(sep) - 1) = sep}
    IN  IF hits = {} THEN <<t>>
        ELSE LET i == CHOOSE h \in hits : \A g \in hits : h <= g
             IN  <<SubSeq(t, 1, i - 1)>> \o split(SubSeq(t, i + Len(sep), Len(t)), sep)

\* the end of the run of whitespace that starts at position i
RECURSIVE spaceRunEnd(_, _)
spaceRunEnd(t, i) ==
    IF i < Len(t) /\ IsSpace(t[i + 1]) THEN spaceRunEnd(t, i + 1) ELSE i

\* String.prototype.split(/(?<=[.!?])\s+/)
RECURSIVE splitSentences(_)
splitSentences(t) ==
    LET hits == {i \in 2..Len(t) : IsSpace(t[i]) /\ t[i - 1] \in {".", "!", "?"}}
    IN  IF hits = {} THEN <<t>>
        ELSE LET i == CHOOSE h \in hits : \A g \in hits : h <= g
             IN  <<SubSeq(t, 1, i - 1)>>
                    \o splitSentences(SubSeq(t, spaceRunEnd(t, i) + 1, Len(t)))

\* .filter(part => part.trim())
nonBlank(parts) == SelectSeq(parts, LAMBDA part : trim(part) # <<>>)

forceSplitFirst(t, size) == IF Len(t) <= size THEN <<t>> ELSE <<SubSeq(t, 1, size)>>

\* for (i = 0; i < text.length; i += size) push(text.substring(i, i + size))
RECURSIVE forceSplit(_, _)
forceSplit(t, size) ==
    IF t = <<>> THEN <<>>
    ELSE IF Len(t) <= size THEN <<t>>
    ELSE <<SubSeq(t, 1, size)>> \o forceSplit(SubSeq(t, size + 1, Len(t)), size)

\* the splitting strategies: paragraphs, lines, sentences, character count
textParts(extractedText) ==
    LET paragraphs == nonBlank(split(extractedText, <<"\n", "\n">>))
        lines == IF Len(paragraphs) = 1
                 THEN nonBlank(split(extractedText, <<"\n">>)) ELSE paragraphs
        sentences == IF Len(lines) = 1
                     THEN nonBlank(splitSentences(extractedText)) ELSE lines
    IN  IF Len(sentences) = 1 THEN forceSplit(sentences[1], maxChunkSize) ELSE sentences

\* the loop over textParts; and the last chunk
RECURSIVE pack(_, _, _)
pack(parts, out, currentChunk) ==
    IF parts = <<>>
    THEN IF trim(currentChunk) # <<>> THEN Append(out, trim(currentChunk)) ELSE out
    ELSE LET part == Head(parts) IN
         IF Len(currentChunk \o part) > maxChunkSize /\ Len(currentChunk) > 0
         THEN pack(Tail(parts), Append(out, trim(currentChunk)), part)
         ELSE IF Len(part) > maxChunkSize
         THEN pack(Tail(parts),
                   (IF trim(currentChunk) # <<>>
                    THEN Append(out, trim(currentChunk)) ELSE out)
                       \o forceSplit(part, maxChunkSize),
                   <<>>)
         ELSE pack(Tail(parts), out,
                   currentChunk \o (IF currentChunk # <<>> THEN <<"\n">> ELSE <<>>) \o part)

\* history: the part the last strategy cuts by character count
slicedText(extractedText) ==
    LET paragraphs == nonBlank(split(extractedText, <<"\n", "\n">>))
        lines == IF Len(paragraphs) = 1
                 THEN nonBlank(split(extractedText, <<"\n">>)) ELSE paragraphs
        sentences == IF Len(lines) = 1
                     THEN nonBlank(splitSentences(extractedText)) ELSE lines
    IN  IF Len(sentences) = 1 /\ Len(sentences[1]) > maxChunkSize THEN {sentences[1]} ELSE {}

\* history: the parts the loop over textParts cuts by character count
RECURSIVE slicedParts(_, _)
slicedParts(parts, currentChunk) ==
    IF parts = <<>> THEN {}
    ELSE LET part == Head(parts) IN
         IF Len(currentChunk \o part) > maxChunkSize /\ Len(currentChunk) > 0
         THEN slicedParts(Tail(parts), part)
         ELSE IF Len(part) > maxChunkSize
         THEN {part} \cup slicedParts(Tail(parts), <<>>)
         ELSE slicedParts(Tail(parts),
                   currentChunk \o (IF currentChunk # <<>> THEN <<"\n">> ELSE <<>>) \o part)

\* the texts the handler chunks: extractedText.trim() is not empty
Texts ==
    {t \in UNION {[1..n -> Chars] : n \in 1..MaxTextLen} : trim(t) # <<>>}

InitChunker ==
    /\ docs = <<>>
    /\ chunks = <<>>
    /\ isProcessing = FALSE
    /\ ticks = <<>>
    /\ submit \in {[pc |-> "text", extractedText |-> t, textParts |-> <<>>, chunks |-> <<>>,
                      sliced |-> {}] : t \in Texts}
    /\ retry = IdleRetry
    /\ rejected = FALSE
    /\ processingInterval = 1
    /\ intervals = {1}

wholeTextTrimmed(t) == <<trim(t)>>

\* else { chunks.push(extractedText) }
wholeText(t) == <<t>>

\* extractedText.length <= maxChunkSize: the text is the one chunk
ChunkWhole ==
    /\ submit.pc = "text"
    /\ Len(submit.extractedText) <= maxChunkSize
    /\ submit' = [submit EXCEPT !.pc = "chunked", !.chunks = wholeText(submit.extractedText)]
    /\ UNCHANGED <<docs, chunks, isProcessing, ticks, retry, rejected, timer>>

ChunkSplit ==
    /\ submit.pc = "text"
    /\ Len(submit.extractedText) > maxChunkSize
    /\ submit' = [submit EXCEPT !.pc = "parts", !.textParts = textParts(submit.extractedText),
                                !.sliced = slicedText(submit.extractedText)]
    /\ UNCHANGED <<docs, chunks, isProcessing, ticks, retry, rejected, timer>>

ChunkPack ==
    /\ submit.pc = "parts"
    /\ submit' = [submit EXCEPT !.pc = "chunked", !.chunks = pack(submit.textParts, <<>>, <<>>),
                                !.sliced = @ \cup slicedParts(submit.textParts, <<>>)]
    /\ UNCHANGED <<docs, chunks, isProcessing, ticks, retry, rejected, timer>>

NextChunker == ChunkWhole \/ ChunkSplit \/ ChunkPack

SpecChunker == InitChunker /\ [][NextChunker]_vars

-----------------------------------------------------------------------------
(* PDFProcessor.processPDF, called by POST /api/process-document for a .pdf  *)
(* upload.  A buffer is a sequence of blocks of BlockBytes bytes; a block is *)
(* named by the byte string it begins with, so the first 20 bytes of the     *)
(* buffer are the head of its first block.  A message or an extracted text   *)
(* is a sequence of tokens; the words the code searches for are tokens of    *)
(* their own.                                                                *)

MaxBlocks == 3      \* blocks of an uploaded buffer

BlockBytes == 512        \* i += 512
MinPdfBytes == 1024      \* buffer.length < 1024
ScanBytes == 4096        \* Math.min(buffer.length, 4096)
MinExtractChars == 10    \* extractedText.trim().length < 10
MinTextChars == 50       \* extractedText.length >= 50

Blocks == {"%PDF-", "U2FsdGVkX1", "/Encrypt", "encrypted", "obj"}

Buffers == UNION {[1..n -> Blocks] : n \in 1..MaxBlocks}

\* String.prototype.includes for a pattern of consecutive tokens
includes(msg, pat) ==
    \E i \in 1..(Len(msg) - Len(pat) + 1) : SubSeq(msg, i, i + Len(pat) - 1) = pat

\* String.prototype.toLowerCase, on the tokens that carry capitals
toLowerCase(msg) ==
    [i \in DOMAIN msg |->
        CASE msg[i] = "U2FsdGVkX1" -> "u2fsdgvkx1"
          [] msg[i] = "Invalid PDF structure" -> "invalid pdf structure"
          [] OTHER -> msg[i]]

MsgEncryptedUpload ==
    <<"This file appears to be ", "encrypted", " during upload",
      ". This usually happens due to browser extensions or security software.">>
MsgTooSmall == <<"File too small to be a valid PDF. Please check the file and try again.">>
MsgNoFormat ==
    <<"Unable to detect PDF format. Please ensure you are uploading a valid, un",
      "protected", " PDF file.">>
MsgPreprocessEncrypted ==
    <<"This PDF contains ", "encrypted", " or ", "protected",
      " content that cannot be processed. Please save it as an un", "protected",
      " PDF and try again.">>
MsgTextEncrypted ==
    <<"This PDF contains ", "encrypted", " content. Please save it as an un", "protected",
      " PDF using your PDF viewer's 'Print to PDF' option and try again.">>
MsgStructuralClean ==
    <<"This PDF has structural issues that prevent processing. Try using 'Print to PDF' from your PDF viewer to create a clean version.">>
MsgPasswordProtected ==
    <<"This PDF is ", "password", "-", "protected", ". Please remove the ", "password",
      " or use 'Print to PDF' to create an un", "protected", " version.">>
MsgSkipOCR ==
    <<"This PDF contains ", "encrypted",
      " content that cannot be processed. Please save it as an un", "protected",
      " PDF using 'Print to PDF' and try again.">>
MsgGenericEncrypted ==
    <<"This PDF contains ", "encrypted", " or ", "protected",
      " content that cannot be processed. Please provide an un", "protected", " version.">>
MsgStructural ==
    <<"This PDF has structural issues that prevent processing. The file may be corrupted or use an unsupported format.">>
MsgUnable ==
    <<"Unable to process PDF file. The file may be corrupted, ", "password", "-",
      "protected", ", or in an unsupported format.">>

\* errors of extractTextFromPDF and extractTextWithOCR
ErrMinimal == <<"PDF text extraction failed: ", "Text extraction yielded minimal content">>
ErrGhostscript == <<"PDF text extraction failed: ", "Command failed: gs">>
ErrOCR ==
    <<"OCR processing failed: ",
      "No text could be extracted from PDF pages using any conversion method">>

\* what Ghostscript's txtwrite may leave in the output file
GsTexts ==
    {<<"paragraph ">>, <<"paragraph ", "encrypted">>, <<"U2FsdGVkX1">>, <<"encrypted">>,
     <<" ", "word ", "word ", "\n">>, <<"\n">>}

\* headerBinary.includes('U2FsdGVkX1') || ...
cipherHeader(buffer) == Head(buffer) = "U2FsdGVkX1"

\* headerBinary.includes('%PDF-') || ...
hasValidPDFHeader(buffer) == Head(buffer) = "%PDF-"

\* the search for the signature in the first 4096 bytes, 512 at a time
pdfFound(buffer) ==
    \E i \in DOMAIN buffer : (i - 1) * BlockBytes < ScanBytes /\ buffer[i] = "%PDF-"

\* fullBufferString.includes('U2FsdGVkX1') || includes('/Encrypt') || includes('encrypted')
hasEncryptionMarkers(buffer) ==
    \E i \in DOMAIN buffer : buffer[i] \in {"U2FsdGVkX1", "/Encrypt", "encrypted"}

\* extractedText.includes('U2FsdGVkX1') || extractedText.includes('encrypted')
textHasMarkers(text) == includes(text, <<"U2FsdGVkX1">>) \/ includes(text, <<"encrypted">>)

\* a temporary file: its path without the time stamp, and the page of an image
File(path, page) == <<path, page>>

\* extractTextFromPDF: the text of the output file, or an error; files are
\* the temporary files it leaves. Ghostscript failing (out = NULL) throws
\* before the cleanup, which follows the reading of the output file.
extractTextFromPDF(out) ==
    IF out = NULL
    THEN [text |-> NULL, error |-> ErrGhostscript, files |-> {File("/tmp/extract.pdf", 0)}]
    ELSE IF length(trim(out)) < MinExtractChars
    THEN [text |-> NULL, error |-> ErrMinimal, files |-> {}]
    ELSE [text |-> out, error |-> NULL, files |-> {}]

\* pages a converter is asked for: const maxTotalPages (20 in the source)
maxTotalPages == 3

\* the one converter of extractTextWithOCR
Converters == <<"pdf2pic">>

\* how the conversion and recognition of one page end: text of more than 10
\* characters, less text, no image file, convert throws, recognize throws
PageOutcomes == {"text", "blank", "noimage", "convertThrows", "recognizeThrows"}

\* the for loop over pageNum, from pageNum on; a throw breaks the loop, and
\* the image is unlinked only after recognize returned
RECURSIVE ocrPages(_, _, _)
ocrPages(outcomes, pageNum, run) ==
    IF pageNum > maxTotalPages THEN run
    ELSE LET tried == [run EXCEPT !.attempted = Append(@, pageNum)] IN
         CASE outcomes[pageNum] = "convertThrows" -> [tried EXCEPT !.stopped = pageNum]
           [] outcomes[pageNum] = "recognizeThrows" ->
                [tried EXCEPT !.stopped = pageNum,
                              !.files = @ \cup {File("/tmp/page.png", pageNum)}]
           [] outcomes[pageNum] = "text" ->
                ocrPages(outcomes, pageNum + 1,
                         [tried EXCEPT !.extractedTexts = Append(@, pageNum)])
           [] OTHER -> ocrPages(outcomes, pageNum + 1, tried)

\* no OCR run
NoOCR ==
    [converters |-> <<>>, attempted |-> <<>>, extractedTexts |-> <<>>, stopped |-> 0,
     files |-> {}]

\* extractTextWithOCR: the temporary PDF is written, the pages are converted
\* and recognized, the temporary PDF is unlinked
extractTextWithOCR(outcomes) ==
    LET run == ocrPages(outcomes, 1,
                        [NoOCR EXCEPT !.converters = Converters,
                                      !.files = {File("/tmp/pdf.pdf", 0)}])
    IN  [run EXCEPT !.files = @ \ {File("/tmp/pdf.pdf", 0)}]

\* normalizePDF: the temporary files left when it returns. Every return
\* calls cleanupFiles on the three paths; the outer catch does not, and is
\* reached when the input file could not be written.
normalizePDFFiles(tools) ==
    LET written ==
            IF ~tools.writeFileSync THEN {}
            ELSE {File("/tmp/input.pdf", 0)}
                 \cup (IF "output" \in {tools.gs, tools.simple, tools.qpdf}
                       THEN {File("/tmp/normalized.pdf", 0)} ELSE {})
                 \cup (IF tools.gs = "output" /\ tools.clean = "output"
                       THEN {File("/tmp/clean.pdf", 0)} ELSE {})
        cleanupFiles == {File("/tmp/input.pdf", 0), File("/tmp/normalized.pdf", 0),
                         File("/tmp/clean.pdf", 0)}
    IN  IF tools.writeFileSync THEN written \ cleanupFiles ELSE written

SkipOCRNever(markers) == FALSE

\* if (hasEncryptionMarkers) throw: OCR is skipped
SkipOCR(markers) == markers

\* catch (textError): the message thrown instead, NULL when the error is swallowed
textCatch(message) ==
    LET errorMessage == toLowerCase(message) IN
    IF includes(errorMessage, <<"invalid pdf structure">>) THEN MsgStructuralClean
    ELSE IF \/ includes(errorMessage, <<"encrypted">>)
            \/ includes(errorMessage, <<"password">>)
            \/ includes(errorMessage, <<"protected">>)
    THEN MsgPasswordProtected
    ELSE NULL

\* catch (error) of processPDF: the message that reaches the caller
outerCatch(message) ==
    LET errorMessage == toLowerCase(message) IN
    IF \/ includes(errorMessage, <<"u2fsdgvkx1">>)
       \/ includes(errorMessage, <<"salted">>)
       \/ includes(errorMessage, <<"encrypted", " during upload">>)
    THEN message
    ELSE IF includes(errorMessage, <<"encrypted">>) THEN MsgGenericEncrypted
    ELSE IF \/ includes(errorMessage, <<"undefined in">>)
            \/ includes(errorMessage, <<"improper image header">>)
    THEN MsgStructural
    ELSE MsgUnable

\* how an external command ends: execAsync rejects, or the command exits
\* with status 0 and its output file is missing or empty, or holds a PDF
Outcomes == {"throws", "empty", "output"}

\* one run of normalizePDF: whether the input file could be written, and how
\* the two Ghostscript passes of method 1, the Ghostscript call of method 2
\* and the qpdf command of method 3 end when they are run
Tools ==
    [writeFileSync : BOOLEAN, gs : Outcomes, clean : Outcomes, simple : Outcomes,
     qpdf : Outcomes]

NoTools ==
    [writeFileSync |-> FALSE, gs |-> "none", clean |-> "none", simple |-> "none",
     qpdf |-> "none"]

\* normalizePDF: the method whose output file is read and returned, "null"
\* when it returns null
normalizePDF(tools) ==
    IF ~tools.writeFileSync THEN "null"
    ELSE IF tools.gs = "output" /\ tools.clean = "output" THEN "advanced"
    ELSE IF tools.simple = "output" THEN "simple"
    ELSE IF tools.qpdf = "output" THEN "qpdf"
    ELSE "null"

PdfCall(buffer) ==
    [pc |-> "header", buffer |-> buffer, hasEncryptionMarkers |-> FALSE,
     normalizationUsed |-> FALSE, text |-> NULL, error |-> NULL,
     tools |-> NoTools,     \* history: how the commands of normalizePDF ended
     processingBuffer |-> "none",  \* "original" or the method that normalized it
     extracted |-> "none",  \* history: the buffer given to extractTextFromPDF
     files |-> {},          \* the temporary files on disk
     ocr |-> NoOCR,         \* history: the run of extractTextWithOCR
     detected |-> NULL,     \* history: the message thrown where encryption was detected
     invoked |-> {},        \* history: the stages called
     method |-> "none"]

InitPDF ==
    /\ docs = <<>>
    /\ chunks = <<>>
    /\ isProcessing = FALSE
    /\ ticks = <<>>
    /\ submit \in {PdfCall(buffer) : buffer \in Buffers}
    /\ retry = IdleRetry
    /\ rejected = FALSE
    /\ processingInterval = 1
    /\ intervals = {1}

\* a throw inside the outer try
PdfThrow(message) == [submit EXCEPT !.pc = "catch", !.error = message]

\* The header analysis, the validation of the format and the early search
\* for encryption markers.
PdfHeader ==
    /\ submit.pc = "header"
    /\ LET buffer == submit.buffer IN
       submit' =
         IF cipherHeader(buffer)
         THEN [PdfThrow(MsgEncryptedUpload) EXCEPT !.detected = MsgEncryptedUpload]
         ELSE IF ~hasValidPDFHeader(buffer) /\ Len(buffer) * BlockBytes < MinPdfBytes
         THEN PdfThrow(MsgTooSmall)
         ELSE IF ~hasValidPDFHeader(buffer) /\ ~pdfFound(buffer)
         THEN PdfThrow(MsgNoFormat)
         ELSE [submit EXCEPT !.pc = "normalize",
                             !.hasEncryptionMarkers = hasEncryptionMarkers(buffer)]
    /\ UNCHANGED <<docs, chunks, isProcessing, ticks, retry, rejected, timer>>

\* normalizePDF returns a buffer or null; with null and markers, the throw
PdfNormalize ==
    /\ submit.pc = "normalize"
    /\ \E tools \in Tools :
         LET normalizedBuffer == normalizePDF(tools)
             normalizationUsed == normalizedBuffer # "null"
             called == [submit EXCEPT !.invoked = @ \cup {"normalizePDF"},
                                      !.tools = tools,
                                      !.files = @ \cup normalizePDFFiles(tools),
                                      !.processingBuffer =
                                          IF normalizationUsed THEN normalizedBuffer
                                          ELSE "original",
                                      !.normalizationUsed = normalizationUsed]
         IN  submit' =
               IF ~normalizationUsed /\ submit.hasEncryptionMarkers
               THEN [called EXCEPT !.pc = "catch", !.error = MsgPreprocessEncrypted,
                                   !.detected = MsgPreprocessEncrypted]
               ELSE [called EXCEPT !.pc = "extract"]
    /\ UNCHANGED <<docs, chunks, isProcessing, ticks, retry, rejected, timer>>

\* extractTextFromPDF and the inner try: success, too little text, or an
\* error in the hands of catch (textError)
PdfExtractText ==
    /\ submit.pc = "extract"
    /\ \E out \in GsTexts \cup {NULL} :
         LET textResult == extractTextFromPDF(out)
             called == [submit EXCEPT !.invoked = @ \cup {"extractTextFromPDF"},
                                      !.extracted = submit.processingBuffer,
                                      !.files = @ \cup textResult.files,
                                      !.text = textResult.text]
         IN  submit' =
               IF textResult.error # NULL
               THEN [called EXCEPT !.pc = "textCatch", !.error = textResult.error]
               ELSE IF textHasMarkers(trim(textResult.text))
               THEN [called EXCEPT !.pc = "textCatch", !.error = MsgTextEncrypted,
                                   !.detected = MsgTextEncrypted]
               ELSE IF length(trim(textResult.text)) >= MinTextChars
               THEN [called EXCEPT !.pc = "returned",
                                   !.method = IF submit.normalizationUsed
                                              THEN "normalized-text-extraction"
                                              ELSE "text-extraction"]
               ELSE [called EXCEPT !.pc = "step3"]
    /\ UNCHANGED <<docs, chunks, isProcessing, ticks, retry, rejected, timer>>

\* catch (textError)
PdfTextCatch ==
    /\ submit.pc = "textCatch"
    /\ submit' = IF textCatch(submit.error) # NULL
                 THEN PdfThrow(textCatch(submit.error))
                 ELSE [submit EXCEPT !.pc = "step3", !.error = NULL]
    /\ UNCHANGED <<docs, chunks, isProcessing, ticks, retry, rejected, timer>>

\* Step 3: the throw on markers, else the call of extractTextWithOCR
PdfStep3 ==
    /\ submit.pc = "step3"
    /\ submit' =
         IF SkipOCR(submit.hasEncryptionMarkers)
         THEN [PdfThrow(MsgSkipOCR) EXCEPT !.detected = MsgSkipOCR]
         ELSE [submit EXCEPT !.pc = "ocr", !.invoked = @ \cup {"extractTextWithOCR"}]
    /\ UNCHANGED <<docs, chunks, isProcessing, ticks, retry, rejected, timer>>

\* extractTextWithOCR returns the text of the pages, or throws
PdfOCR ==
    /\ submit.pc = "ocr"
    /\ \E outcomes \in [1 .. maxTotalPages -> PageOutcomes] :
         LET ocrResult == extractTextWithOCR(outcomes)
             called == [submit EXCEPT !.invoked = @ \cup {"extractTextWithOCR"},
                                      !.files = @ \cup ocrResult.files,
                                      !.ocr = ocrResult]
         IN  IF ocrResult.extractedTexts = <<>>
             THEN submit' = [called EXCEPT !.pc = "catch", !.error = ErrOCR]
             ELSE \E text \in GsTexts :
                    submit' = [called EXCEPT !.pc = "returned", !.text = text,
                                            !.method = "ocr"]
    /\ UNCHANGED <<docs, chunks, isProcessing, ticks, retry, rejected, timer>>

\* catch (error) of processPDF: the error the route answers with (status 400)
PdfCatch ==
    /\ submit.pc = "catch"
    /\ submit' = [submit EXCEPT !.pc = "failed", !.error = outerCatch(submit.error)]
    /\ UNCHANGED <<docs, chunks, isProcessing, ticks, retry, rejected, timer>>

NextPDF ==
    \/ PdfHeader
    \/ PdfNormalize
    \/ PdfExtractText
    \/ PdfTextCatch
    \/ PdfStep3
    \/ PdfOCR
    \/ PdfCatch

SpecPDF == InitPDF /\ [][NextPDF]_vars

-----------------------------------------------------------------------------
(* The OCR worker of the exported pdfProcessor: initializeOCR, terminateOCR. *)
(* Concurrent requests call extractTextWithOCR on the same object; each     *)
(* await is a point where another call runs.                                *)

\* concurrent calls of extractTextWithOCR
MaxCalls == 2
\* workers created in one behaviour
MaxWorkers == 3

Calls == 1 .. MaxCalls

NoWorker == 0

IdleCall == [pc |-> "idle", worker |-> NoWorker]

\* private ocrWorker: any = null, no call running, no worker created
InitOCR ==
    /\ docs = <<>>
    /\ chunks = <<>>
    /\ isProcessing = FALSE
    /\ ticks = <<>>
    /\ submit = [ocrWorker |-> NoWorker, workers |-> {}, created |-> 0,
                 calls |-> [c \in Calls |-> IdleCall],
                 cleanup |-> IdleCall]
    /\ retry = IdleRetry
    /\ rejected = FALSE
    /\ processingInterval = 1
    /\ intervals = {1}

\* if (this.ocrWorker) return; otherwise await import('tesseract.js')
initializeOCR(c) ==
    /\ submit.calls[c].pc = "idle"
    /\ submit' = [submit EXCEPT !.calls[c].pc =
                     IF submit.ocrWorker # NoWorker THEN "recognize" ELSE "import"]
    /\ UNCHANGED <<docs, chunks, isProcessing, ticks, retry, rejected, timer>>

\* createWorker('eng') starts a worker and is awaited, or the import or
\* the creation throws 'OCR initialization failed'
createWorker(c) ==
    /\ submit.calls[c].pc = "import"
    /\ \/ /\ submit.created < MaxWorkers
          /\ submit' = [submit EXCEPT !.created = @ + 1,
                                      !.workers = @ \cup {submit.created + 1},
                                      !.calls[c] = [pc |-> "createWorker",
                                                    worker |-> submit.created + 1]]
       \/ submit' = [submit EXCEPT !.calls[c] = IdleCall]
    /\ UNCHANGED <<docs, chunks, isProcessing, ticks, retry, rejected, timer>>

\* this.ocrWorker = <the awaited worker>
assignWorker(c) ==
    /\ submit.calls[c].pc = "createWorker"
    /\ submit' = [submit EXCEPT !.ocrWorker = submit.calls[c].worker,
                                !.calls[c].pc = "recognize"]
    /\ UNCHANGED <<docs, chunks, isProcessing, ticks, retry, rejected, timer>>

\* the rest of extractTextWithOCR, which uses this.ocrWorker and returns
recognize(c) ==
    /\ submit.calls[c].pc = "recognize"
    /\ submit' = [submit EXCEPT !.calls[c] = IdleCall]
    /\ UNCHANGED <<docs, chunks, isProcessing, ticks, retry, rejected, timer>>

\* terminateOCR: if (this.ocrWorker) await this.ocrWorker.terminate()
terminateOCR ==
    /\ submit.cleanup.pc = "idle"
    /\ submit.ocrWorker # NoWorker
    /\ submit' = [submit EXCEPT !.workers = @ \ {submit.ocrWorker},
                                !.cleanup = [pc |-> "terminate",
                                             worker |-> submit.ocrWorker]]
    /\ UNCHANGED <<docs, chunks, isProcessing, ticks, retry, rejected, timer>>

\* terminateOCR after the await: this.ocrWorker = null
releaseWorker ==
    /\ submit.cleanup.pc = "terminate"
    /\ submit' = [submit EXCEPT !.ocrWorker = NoWorker, !.cleanup = IdleCall]
    /\ UNCHANGED <<docs, chunks, isProcessing, ticks, retry, rejected, timer>>

NextOCR ==
    \/ \E c \in Calls : initializeOCR(c)
    \/ \E c \in Calls : createWorker(c)
    \/ \E c \in Calls : assignWorker(c)
    \/ \E c \in Calls : recognize(c)
    \/ terminateOCR
    \/ releaseWorker

SpecOCR == InitOCR /\ [][NextOCR]_vars

-----------------------------------------------------------------------------
(* Properties *)

ChunksOf(d) == {i \in DOMAIN chunks : chunks[i].documentId = d}

InFlight == {k \in DOMAIN ticks : ticks[k].pc \in {"pathA", "pathB"}}

SingleFlight == Len(ticks) <= 1 /\ (isProcessing <=> ticks # <<>>)

RejectedIsNoop ==
    (isProcessing /\ ~rejected /\ rejected') => UNCHANGED <<docs, chunks, ticks, isProcessing>>

\* C1: an invocation of processNextChunk made while an earlier one has not
\* finished returns at the guard and touches neither storage nor the LLM; at
\* no time are two tick bodies executing, and isProcessing is set exactly
\* while one is.
C1_SingleFlightTick == []SingleFlight /\ [][RejectedIsNoop]_vars

\* C1 witness: an invocation was rejected while a tick waits for the LLM.
C1_Witness == rejected /\ Len(ticks) = 1 /\ ticks[1].pc = "pathA"

\* C2: at most one chunk is in flight to the LLM, over all documents, and no
\* tick moves more than one chunk from pending to processing (so N ticks
\* move at most N chunks).
C2_AtMostOneInFlight ==
    /\ Cardinality(InFlight) <= 1
    /\ \A k \in DOMAIN ticks : ticks[k].moved <= 1

\* C2 witness: a tick has moved its one chunk and waits for the LLM while
\* another document of its scan still has a pending chunk.
C2_Witness ==
    \E k \in DOMAIN ticks :
        /\ ticks[k].pc = "pathA"
        /\ ticks[k].moved = 1
        /\ \E i \in DOMAIN chunks :
              /\ chunks[i].status = "pending"
              /\ chunks[i].documentId # ticks[k].chunk[1].documentId
              /\ \E j \in DOMAIN ticks[k].docs : ticks[k].docs[j] = chunks[i].documentId

\* C3: a completed document has processedChunks = totalChunks and a non-null
\* processedMarkdown.
C3_CompletedDocument ==
    \A d \in DOMAIN docs :
        docs[d].status = "completed" =>
            /\ docs[d].processedChunks = docs[d].totalChunks
            /\ docs[d].processedMarkdown # NULL

\* C4: no tick observes a document in status processing that has fewer chunk
\* records than its totalChunks.
C4_ProcessingHasItsChunks ==
    \A k \in DOMAIN ticks :
        (ticks[k].pc = "scan" /\ ticks[k].docs # <<>>) =>
            LET d == Head(ticks[k].docs)
            IN  docs[d].status = "processing" =>
                    Cardinality(ChunksOf(d)) = docs[d].totalChunks

Processing(i) == i \in DOMAIN chunks /\ chunks[i].status = "processing"

Stuck(i) == Processing(i) /\ chunks[i].age > stuckChunkThreshold

TickEntered == Len(ticks') = Len(ticks) + 1

\* C5: the tick that finds a chunk in processing older than the stuck
\* threshold resets it to pending with errorMessage cleared, on entry and
\* before any chunk is selected; every other chunk is left as it is.
C5_StuckRecovery ==
    [][TickEntered =>
         \A i \in DOMAIN chunks :
             IF Stuck(i)
             THEN chunks'[i].status = "pending" /\ chunks'[i].errorMessage = NULL
             ELSE chunks'[i] = chunks[i]]_vars

\* C5 witness: a tick has just reset a stuck chunk that carried a
\* low-retention marker, and left a younger chunk in processing.
C5_Witness ==
    \E k \in DOMAIN ticks :
        /\ ticks[k].pc = "scan"
        /\ ticks[k].moved = 0
        /\ \E i \in ticks[k].stuck :
              /\ chunks[i].status = "pending"
              /\ chunks[i].errorMessage = NULL
              /\ chunks[i].lowResets > 0
        /\ \E j \in DOMAIN chunks : Processing(j)

\* C6: a chunk left in processing past the stuck threshold (its LLM call
\* does not return, the process keeps running) eventually leaves processing.
C6_HangRecovered == \A i \in 1..MaxChunks : Stuck(i) ~> ~Processing(i)

\* C7: a processing chunk with recorded retry count r < 2 is not marked
\* completed with an output below the retention threshold; a low-retention
\* reset records r + 1 and leaves processedChunks alone.
C7_RetentionGuard ==
    [][\A i \in DOMAIN chunks :
          LET r == retryCount(chunks[i].errorMessage)
              d == chunks[i].documentId
          IN  chunks[i].status = "processing" =>
                /\ (chunks'[i].status = "completed" /\ r < RetryBound) =>
                       ~LowRetention(chunks'[i].processedContent, chunks[i].content)
                /\ (chunks'[i].status = "pending" /\ isRetry(chunks'[i].errorMessage)) =>
                       /\ retryCount(chunks'[i].errorMessage) = r + 1
                       /\ docs'[d].processedChunks = docs[d].processedChunks]_vars

\* C8: no completed chunk holds an output below the retention threshold
\* unless its recorded retry count has reached 2.
C8_NoLowRetentionCompleted ==
    \A i \in DOMAIN chunks :
        (chunks[i].status = "completed"
            /\ LowRetention(chunks[i].processedContent, chunks[i].content)) =>
                retryCount(chunks[i].errorMessage) >= RetryBound

\* C9: a chunk is reset to pending for low retention at most 2 times before
\* it is completed or failed.
C9_BoundedLowRetentionResets ==
    \A i \in DOMAIN chunks : chunks[i].lowResets <= RetryBound

RECURSIVE InIndexOrder(_)
InIndexOrder(S) ==
    IF S = {} THEN <<>>
    ELSE LET m == CHOOSE i \in S : \A j \in S : chunks[i].chunkIndex <= chunks[j].chunkIndex
         IN  <<chunks[m].processedContent>> \o InIndexOrder(S \ {m})

\* C10: the step that completes a document stores the chunks' processedContent
\* joined in ascending chunkIndex order with a blank line between them,
\* whatever order storage returned them in and whatever order they completed in.
C10_FinalizationOrder ==
    [][\A d \in DOMAIN docs :
          (docs[d].status # "completed" /\ docs'[d].status = "completed") =>
              docs'[d].processedMarkdown = Join(InIndexOrder(ChunksOf(d)), <<"\n", "\n">>)]_vars

\* C10 witness: chunks 2, 0, 1 completed in that order; the document reads 0, 1, 2.
C10_Witness ==
    \E d \in DOMAIN docs :
        /\ docs[d].status = "completed"
        /\ docs[d].completedOrder = <<2, 0, 1>>
        /\ docs[d].processedMarkdown =
              <<"w", "0", "\n", "\n", "w", "1", "\n", "\n", "w", "2">>

NoPending(d) == \A i \in ChunksOf(d) : chunks[i].status # "pending"

AllCompleted(d) == \A i \in ChunksOf(d) : chunks[i].status = "completed"

FailedOf(d) == {i \in ChunksOf(d) : chunks[i].status = "failed"}

AllTerminal(d) ==
    /\ d \in DOMAIN docs
    /\ docs[d].status = "processing"
    /\ Cardinality(ChunksOf(d)) = docs[d].totalChunks
    /\ \A i \in ChunksOf(d) : chunks[i].status \in {"completed", "failed"}

Finalized(d) == d \in DOMAIN docs /\ docs[d].status \in {"completed", "failed"}

\* C12: with fair ticks, a processing document all of whose chunks are
\* terminal is eventually marked completed or failed (unless a retry makes
\* one of its chunks pending again first).
C12_EventualFinalization ==
    \A d \in 1..MaxDocs : AllTerminal(d) ~> (Finalized(d) \/ ~AllTerminal(d))

ChunkEdges ==
    {<<"pending", "processing">>, <<"processing", "completed">>,
     <<"processing", "failed">>, <<"processing", "pending">>, <<"failed", "pending">>}

\* C13: a chunk's status changes only along the edges of the chunk state
\* machine; in particular a completed chunk never changes status again.
C13_ChunkStateMachine ==
    [][\A i \in DOMAIN chunks :
          chunks'[i].status # chunks[i].status =>
              <<chunks[i].status, chunks'[i].status>> \in ChunkEdges]_vars

\* the classes the specification calls retryable: rate limit, timeout, network, 5xx
SpecRetryable(msg) ==
    \E tok \in {"rate limit", "timeout", "network", "500", "502", "503", "504"} :
        Includes(msg, tok)

\* C14: when the LLM invocation has failed on both paths, the chunk is reset
\* to pending with the error recorded if the error is retryable (rate limit,
\* timeout, network, 5xx) and otherwise marked failed with the error recorded.
C14_ErrorClassification ==
    [][\A k \in DOMAIN ticks :
          (/\ ticks[k].pc = "pathB"
           /\ k \in DOMAIN ticks'
           /\ ticks'[k].pc = "scan"
           /\ chunks'[ticks[k].chunk[1].id].status # "completed") =>
              LET c == chunks'[ticks[k].chunk[1].id]
              IN  \E m \in AssistantErrors \cup {ErrServer} :
                     IF SpecRetryable(m)
                     THEN c.status = "pending" /\ c.errorMessage = <<"Retrying: ">> \o m
                     ELSE c.status = "failed" /\ c.errorMessage = m]_vars

\* C15: once the retry request has returned, no document is in status failed
\* with a pending chunk.
C15_RetryLeavesProcessing ==
    retry.pc = "idle" =>
        \A d \in DOMAIN docs :
            docs[d].status = "failed" => NoPending(d)

\* C16: between ticks, a document's processedChunks equals the number of its
\* chunks with status completed.
C16_ProcessedChunksCount ==
    ticks = <<>> =>
        \A d \in DOMAIN docs :
            docs[d].processedChunks =
                Cardinality({i \in ChunksOf(d) : chunks[i].status = "completed"})

\* C17: each document has at most one chunk whose stored status is processing.
C17_OneProcessingPerDocument ==
    \A d \in DOMAIN docs :
        Cardinality({i \in ChunksOf(d) : chunks[i].status = "processing"}) <= 1

Selectable(i) ==
    /\ i \in DOMAIN chunks
    /\ chunks[i].status = "pending"
    /\ docs[chunks[i].documentId].status = "processing"

\* C18: a tick that has ended has cleared the single-flight flag, and with
\* fair ticks a pending chunk of a processing document is eventually taken
\* up, whatever happens to the other chunks and documents.
C18_ErrorIsolation ==
    /\ [](ticks = <<>> => ~isProcessing)
    /\ \A i \in 1..MaxChunks : Selectable(i) ~> ~Selectable(i)

Chunked == submit.pc = "chunked"

\* C19: every chunk the chunker produces has length at most maxChunkSize.
C19_ChunkSizeBound ==
    Chunked => \A j \in DOMAIN submit.chunks : Len(submit.chunks[j]) <= maxChunkSize

NonSpace(t) == SelectSeq(t, LAMBDA c : ~IsSpace(c))

RECURSIVE Concat(_)
Concat(ts) == IF ts = <<>> THEN <<>> ELSE Head(ts) \o Concat(Tail(ts))

\* C20: the non-whitespace characters of the chunks, in order, are those of
\* the input text: nothing is dropped, duplicated or reordered.
C20_NoContentLost ==
    Chunked => NonSpace(Concat(submit.chunks)) = NonSpace(submit.extractedText)

\* C20 witness: "a. b" + newline + "a" is split into two lines, the first is
\* force-split into "a. " and "b", the second is the last chunk; the newline
\* is gone, the letters are not.
C20_Witness ==
    /\ Chunked
    /\ submit.extractedText = <<"a", ".", " ", "b", "\n", "a">>
    /\ submit.chunks = <<<<"a", ".", " ">>, <<"b">>, <<"a">>>>

\* C30: a text of at most maxChunkSize characters is chunked into exactly one
\* chunk, and that chunk is the text itself, character for character.
C30_ShortTextOneChunk ==
    (Chunked /\ Len(submit.extractedText) <= maxChunkSize) =>
        submit.chunks = <<submit.extractedText>>

\* C30 witness: a text of exactly maxChunkSize characters that begins and
\* ends with white space was chunked, and the one chunk kept the white space.
C30_Witness ==
    /\ Chunked
    /\ Len(submit.extractedText) = maxChunkSize
    /\ IsSpace(Head(submit.extractedText))
    /\ IsSpace(submit.extractedText[Len(submit.extractedText)])
    /\ submit.chunks = <<submit.extractedText>>

PdfRunning == submit.pc \in {"normalize", "extract", "textCatch", "step3", "ocr", "catch"}

PdfEnded == submit.pc \in {"returned", "failed"}

\* C21: when an encryption marker was detected, in the raw buffer or in the
\* extracted text, processPDF never calls the OCR stage; and OCR is called
\* only after a text extraction that succeeded with too little text or
\* failed, with no encryption detected.
C21_NoOCROnEncryption ==
    (PdfRunning \/ PdfEnded) =>
        /\ (submit.hasEncryptionMarkers \/ submit.detected # NULL)
              => "extractTextWithOCR" \notin submit.invoked
        /\ "extractTextWithOCR" \in submit.invoked =>
              /\ "extractTextFromPDF" \in submit.invoked
              /\ ~hasEncryptionMarkers(submit.buffer)
              /\ submit.detected = NULL

\* C21 witness: the text extracted from a normalized buffer with /Encrypt in
\* it was too short, and the call failed at step 3 with OCR never called.
C21_Witness ==
    /\ submit.pc = "failed"
    /\ submit.buffer = <<"%PDF-", "/Encrypt">>
    /\ submit.normalizationUsed
    /\ submit.invoked = {"normalizePDF", "extractTextFromPDF"}
    /\ submit.detected = MsgSkipOCR

\* C22: when the early search finds encryption markers in the buffer,
\* processPDF fails at once: neither the normalizer nor the text extraction
\* is run on the buffer, and the call never returns a result.
C22_EncryptionFailFast ==
    ((PdfRunning \/ PdfEnded) /\ hasEncryptionMarkers(submit.buffer)) =>
        /\ submit.invoked = {}
        /\ submit.pc # "returned"

\* C23: when processPDF fails because encryption was detected, the error
\* the caller gets is the message thrown where it was detected.
C23_EncryptedMessage ==
    (submit.pc = "failed" /\ submit.detected # NULL) => submit.error = submit.detected

\* the chunk holds a run of more characters than the ceiling
Oversized(i) == Includes(chunks[i].content, "run of 100001 characters")

OversizedEdges ==
    \A i \in DOMAIN chunks :
        Oversized(i) =>
            /\ chunks'[i].status \in {"pending", "failed"}
            /\ (chunks[i].status = "pending" /\ chunks'[i].status = "failed") =>
                   /\ chunks'[i].processedContent = <<"Error: Chunk too large">>
                   /\ \E k \in DOMAIN ticks : ticks[k].pc = "scan" /\ ticks'[k].pc = "scan"
            /\ (chunks[i].status = "failed" /\ chunks'[i].status = "pending") =>
                   retry.pc = "chunks"

Polling == \E k \in DOMAIN ticks : ticks[k].pc = "poll"

MaxPolls == maxWaitTime \div PollInterval + 1

PollBounded ==
    \A k \in DOMAIN ticks :
        ticks[k].pc = "poll" =>
            /\ ticks[k].polls <= MaxPolls
            /\ ticks[k].elapsed >= PollInterval * ticks[k].polls

PollEdges ==
    \A k \in DOMAIN ticks :
        /\ (k \in DOMAIN ticks' /\ ticks[k].pc # "pathB" /\ ticks'[k].pc = "pathB")
              => ticks[k].pc = "pathA"
        /\ (k \in DOMAIN ticks' /\ ticks[k].pc = "poll" /\ ticks'[k].pc # "poll") =>
              LET id == ticks[k].chunk[1].id IN
              /\ chunks'[id].status = "completed" =>
                    ticks[k].runStatus = "completed"
              /\ ticks[k].runStatus # "completed" =>
                    /\ chunks'[id].status \in {"pending", "failed"}
                    /\ chunks'[id].processedContent = chunks[id].processedContent
              /\ Waiting(ticks[k].runStatus) =>
                    /\ ticks[k].elapsed > maxWaitTime
                    /\ Includes(chunks'[id].errorMessage, "timeout")
              /\ ticks[k].runStatus \notin {"queued", "in_progress", "completed"} =>
                    chunks'[id].errorMessage = ErrRunStatus(ticks[k].runStatus)

LowRetentionMarked(i) ==
    chunks[i].errorMessage # NULL /\ Head(chunks[i].errorMessage) = "LOW_RETENTION_RETRY"

FinalizationStep(d) ==
    \E k \in DOMAIN ticks :
        /\ ticks[k].pc = "scan"
        /\ ticks[k].docs # <<>>
        /\ Head(ticks[k].docs) = d
        /\ k \in DOMAIN ticks'
        /\ ticks'[k].docs = Tail(ticks[k].docs)

TerminalWrites ==
    \A d \in DOMAIN docs :
        (docs'[d].status \in {"completed", "failed"} /\ docs'[d].status # docs[d].status)
            => FinalizationStep(d)

\* C27: a document's status becomes completed or failed only in the step of
\* the scheduler's loop that checks the document's chunks; no other component
\* writes either status.
C27_OnlyFinalizationEnds == [][TerminalWrites]_vars

\* a step of a tick on the tables: its entry, or an iteration or the end of
\* its loop over the documents
TickStep ==
    \/ Len(ticks') = Len(ticks) + 1
    \/ \E k \in DOMAIN ticks : ticks[k].pc = "scan" /\ ticks' # ticks

\* no chunk is pending and no document in status processing is ready to be
\* finalized or failed
NothingToDo ==
    /\ \A i \in DOMAIN chunks : chunks[i].status # "pending"
    /\ \A d \in DOMAIN docs :
          docs[d].status = "processing" => (~AllCompleted(d) /\ FailedOf(d) = {})

NoStuckChunk ==
    \A i \in DOMAIN chunks :
        ~(chunks[i].status = "processing" /\ chunks[i].age > stuckChunkThreshold)

\* C28, as stated: a step of a tick taken when no chunk is pending and no
\* document is newly complete changes no field of any document or chunk.
C28_TickIdempotence_AsStated ==
    [][(NothingToDo /\ TickStep) => UNCHANGED <<docs, chunks>>]_vars

\* C28, amended: a step of a tick taken when no chunk is pending, no chunk
\* in processing is older than the stuck threshold and no document is newly
\* complete changes no field of any document or chunk.
C28_TickIdempotence ==
    [][(NothingToDo /\ NoStuckChunk /\ TickStep) => UNCHANGED <<docs, chunks>>]_vars

\* C28 witness: a tick has gone through its whole loop with nothing to do:
\* the one document in its scan has a chunk in processing, younger than the
\* threshold, that no invocation is working on.
C28_Witness ==
    /\ NothingToDo
    /\ NoStuckChunk
    /\ Len(ticks) = 1
    /\ ticks[1].pc = "scan" /\ ticks[1].docs = <<>> /\ ticks[1].moved = 0
    /\ ticks[1].stuck = {}
    /\ \E i \in DOMAIN chunks :
          chunks[i].status = "processing" /\ docs[chunks[i].documentId].status = "processing"

OneTimer ==
    /\ Cardinality(intervals) <= 1
    /\ intervals = IF processingInterval = 0 THEN {} ELSE {processingInterval}

TimerEdges ==
    /\ intervals' # intervals =>
          \/ intervals = {} /\ Cardinality(intervals') = 1
          \/ intervals' = {}
    /\ intervals = {} =>
          /\ Len(ticks') <= Len(ticks)
          /\ rejected' => rejected

\* C29: at most one interval timer is ever set, and it is the one
\* processingInterval holds; a step that changes the timers either sets the
\* only timer (start on a stopped scheduler) or clears every timer (stop);
\* while no timer is set no invocation of the tick begins.
C29_StartStopIdempotent == []OneTimer /\ [][TimerEdges]_vars

\* C29 witness: the scheduler was started, a tick is waiting for the LLM, and
\* stop has cleared the timer.
C29_Witness ==
    /\ processingInterval = 0
    /\ intervals = {}
    /\ Len(ticks) = 1
    /\ ticks[1].pc = "pathA"

\* C39: every chunk in status failed has an errorMessage, chunks rejected as
\* oversized included, and every document in status failed has one.
C39_FailedHasErrorMessage ==
    /\ \A i \in DOMAIN chunks :
          chunks[i].status = "failed" => chunks[i].errorMessage # NULL
    /\ \A d \in DOMAIN docs :
          docs[d].status = "failed" => docs[d].errorMessage # NULL

Finalizes(d) == docs[d].status # "completed" /\ docs'[d].status = "completed"

\* C38: a chunk in status completed has a processedContent that is not null,
\* and a step that finalizes a document joins no null piece.
C38_CompletedHasContent ==
    /\ [](\A i \in DOMAIN chunks :
            chunks[i].status = "completed" => chunks[i].processedContent # NULL)
    /\ [][\A d \in DOMAIN docs :
            Finalizes(d) => \A i \in ChunksOf(d) : chunks[i].processedContent # NULL]_vars

\* C38 witness: the direct completion returned no content for the last chunk
\* of a document, the chunk was completed with its own content and the
\* document is finalized.
C38_Witness ==
    \E d \in DOMAIN docs :
        /\ docs[d].status = "completed"
        /\ ChunksOf(d) # {}
        /\ \A i \in ChunksOf(d) :
              chunks[i].status = "completed" /\ chunks[i].processedContent = chunks[i].content

\* C37: while every attempt on a chunk ends in a retryable error, no chunk is
\* ever marked failed, every attempt that ends puts its chunk back to pending
\* with the Retrying message, whatever the number of earlier attempts, and no
\* document is completed or failed.
C37_RetryableUnbounded ==
    /\ [](\A i \in DOMAIN chunks : chunks[i].status \in {"pending", "processing"})
    /\ [](\A d \in DOMAIN docs : docs[d].status \in {"pending", "processing"})
    /\ [][\A k \in DOMAIN ticks :
            (ticks[k].pc = "pathB" /\ k \in DOMAIN ticks' /\ ticks'[k].pc = "scan") =>
                LET id == ticks[k].chunk[1].id IN
                /\ chunks'[id].status = "pending"
                /\ Head(chunks'[id].errorMessage) = "Retrying: "]_vars

\* C37 witness: an attempt ended with a rate limit error and put the chunk
\* back to pending; the next attempt on the same chunk is under way, and the
\* document is in processing.
C37_Witness ==
    \E k \in DOMAIN ticks :
        /\ ticks[k].pc = "pathB"
        /\ ticks[k].chunk[1].errorMessage = <<"Retrying: ">> \o ErrRateLimit
        /\ chunks[ticks[k].chunk[1].id].status = "processing"
        /\ docs[ticks[k].chunk[1].documentId].status = "processing"

\* the step of the retry route that resets the chunks
RetryResets == retry.pc = "chunks" /\ retry'.pc = "idle"

RetryFrame ==
    /\ RetryResets =>
          \A i \in DOMAIN chunks :
              IF chunks[i].documentId = retry.doc /\ chunks[i].status = "failed"
              THEN /\ chunks'[i].status = "pending"
                   /\ chunks'[i].errorMessage = NULL
                   /\ chunks'[i].processedContent = NULL
                   /\ chunks'[i].content = chunks[i].content
                   /\ chunks'[i].chunkIndex = chunks[i].chunkIndex
              ELSE chunks'[i] = chunks[i]
    /\ \A i \in DOMAIN chunks :
          chunks[i].status = "completed" => chunks'[i] = chunks[i]
    /\ \A d \in DOMAIN docs :
          Finalizes(d) =>
             docs'[d].processedMarkdown =
                Join([n \in 1..Cardinality(ChunksOf(d)) |->
                         chunks[CHOOSE i \in ChunksOf(d) : chunks[i].chunkIndex = n - 1]
                            .processedContent],
                     <<"\n", "\n">>)

\* C36: the retry route resets exactly the failed chunks of its document
\* (status pending, errorMessage and processedContent null) and changes no
\* other chunk; a completed chunk is never changed again, so it is not sent
\* to the LLM a second time; and a finalization joins the outputs of all the
\* chunks, those kept and those made after the retry, by chunkIndex.
C36_RetryFrame == [][RetryFrame]_vars

\* C36 witness: after a retry that found one failed chunk among three, the
\* document is completed from the two old outputs and the new one.
C36_Witness ==
    /\ docs[1].status = "completed"
    /\ docs[1].processedChunks = 1
    /\ docs[1].totalChunks = 3
    /\ docs[1].completedOrder = <<0, 1, 2>>
    /\ docs[1].processedMarkdown = ChunkText(0) \o <<"\n", "\n">> \o <<"w">>
                                       \o <<"\n", "\n">> \o ChunkText(2)

\* the part holds a line break or the end of a sentence it could be split at
InnerBoundary(part) ==
    \/ Len(nonBlank(split(part, <<"\n">>))) > 1
    \/ Len(nonBlank(splitSentences(part))) > 1

\* C31: the chunker cuts by character count only as a last resort: a stretch
\* of text it cuts that way holds no paragraph, line or sentence boundary.
C31_SplitPreference ==
    Chunked => \A part \in submit.sliced : ~InnerBoundary(part)

\* C35: of the OCR workers created, at most one has not been terminated,
\* whatever the interleaving of the concurrent calls.
C35_OCRSingleton ==
    Cardinality(submit.workers) <= 1

\* the normalizers in their order
Normalizers == <<"advanced", "simple", "qpdf">>

\* the normalizer left a non-empty output file
Produced(tools, n) ==
    /\ tools.writeFileSync
    /\ CASE n = 1 -> tools.gs = "output" /\ tools.clean = "output"
         [] n = 2 -> tools.simple = "output"
         [] n = 3 -> tools.qpdf = "output"

\* the normalizers were run
Normalized == "normalizePDF" \in submit.invoked

\* the first normalizer with an output supplies the buffer of the extraction
FirstOutputWins ==
    Normalized =>
        \A n \in 1 .. 3 :
            (Produced(submit.tools, n) /\ \A m \in 1 .. (n - 1) : ~Produced(submit.tools, m))
                => /\ submit.processingBuffer = Normalizers[n]
                   /\ submit.extracted \in {"none", Normalizers[n]}

\* with no output of any normalizer the extraction runs on the original buffer
NormalizationNonFatal ==
    (Normalized /\ \A n \in 1 .. 3 : ~Produced(submit.tools, n))
        => /\ submit.processingBuffer = "original"
           /\ \/ submit.pc = "extract"
              \/ submit.extracted = "original"

\* C32: the normalizers are tried in the order deep reconstruction, simple
\* flatten, decrypt-or-linearize; the first with a non-empty output supplies
\* the buffer of the text extraction; when all fail, the text extraction
\* runs on the original buffer.
C32_Normalization ==
    FirstOutputWins /\ NormalizationNonFatal

\* extractTextWithOCR has run
OCRRan == submit.ocr.converters # <<>>

\* the converter asked for at most maxTotalPages pages, in increasing order
PagesInOrder ==
    /\ Len(submit.ocr.attempted) <= maxTotalPages
    /\ \A i \in 1 .. Len(submit.ocr.attempted) : submit.ocr.attempted[i] = i

\* no page after the page that failed was asked of the converter
StopsAtFailure ==
    submit.ocr.stopped # 0 =>
        submit.ocr.attempted[Len(submit.ocr.attempted)] = submit.ocr.stopped

\* after the failure of a page the next converter of the list was tried
NextConverterTried ==
    submit.ocr.stopped # 0 => Len(submit.ocr.converters) > 1

\* the OCR stage failed for lack of content exactly when no page yielded any
NoContentIffNoPage ==
    (submit.pc \in {"catch", "failed"}) <=> (submit.ocr.extractedTexts = <<>>)

\* C33: a converter rasterizes at most maxTotalPages pages in increasing
\* order; a failure at page k stops it and the next converter is then
\* tried; OCR fails for lack of content iff no page yielded content.
C33_OCRFallback ==
    OCRRan => PagesInOrder /\ StopsAtFailure /\ NextConverterTried /\ NoContentIffNoPage

\* the parts of C33 about the one converter there is
C33_OneConverter ==
    OCRRan => PagesInOrder /\ StopsAtFailure /\ NoContentIffNoPage

\* C34: when processPDF has returned or thrown, no temporary file written
\* by normalization, text extraction or OCR is left.
C34_TempFilesDeleted ==
    PdfEnded => submit.files = {}

====
